---- MODULE Spec2Model ----
(***************************************************************************)
(* Client side of the kart helper-handoff protocol                         *)
(* (bootloader/src/kart.c: kart_main and exit_on_alarm; the same code is   *)
(* repeated in bootloader/src/main.c: main and exit_on_alarm).             *)
(*                                                                         *)
(* One client invocation is modelled step by step, one action per system   *)
(* call of kart_main.  The helper process and the kernel objects the       *)
(* client talks to (listening socket, System V semaphore, SIGALRM) are the *)
(* environment.                                                            *)
(***************************************************************************)
EXTENDS Integers, Sequences, FiniteSets, TLC

\* ------------------------------------------------------------------------
\* Program constants
\* ------------------------------------------------------------------------
\* kart.c:27   int exit_code = semval - 1000;
OFFSET == 1000
\* kart.c:129  int rtc, max_retry = 10;
MAX_RETRY == 10
\* kart.c:215  res = -9999;
RES_NORMAL == -9999

\* ------------------------------------------------------------------------
\* Bounds and input sets of the environment
\* ------------------------------------------------------------------------
\* Number of bytes of the printed payload (strlen(payload_string)); sendmsg
\* may accept 1..PayloadLen of them.
PayloadLen == 2

\* Exit codes a helper reports.
ExitCodes == {0, 1, 127, 255}

\* Identifiers the kernel may hand out for a new semaphore set.
SemIdPool == {0, 5}

\* semget does not initialise semval: POSIX leaves the value of a new
\* semaphore indeterminate (Linux happens to zero it).
RestingVals == {0, 1000}

\* Return values of posix_spawnp: 0, or a positive error number
\* (2 = ENOENT, 11 = EAGAIN).  It never returns a negative number.
SpawnStatuses == {0, 2, 11}

\* getpid() of the client.
Pid == 42

\* open(getcwd(NULL, 0), O_RDONLY): first free descriptor, or -1.
CwdFds == {3, -1}

\* Largest number of entries of an enumerated environment.
MaxEnv == 2

\* ------------------------------------------------------------------------
\* Strings are sequences of characters
\* ------------------------------------------------------------------------
\* kart.c:35, 82  "KART_USE_HELPER"
KART_USE_HELPER ==
    <<"K", "A", "R", "T", "_", "U", "S", "E", "_", "H", "E", "L", "P", "E", "R">>

\* Environment entries the inputs are built from.
E_KART_1     == KART_USE_HELPER \o <<"=", "1">>
E_KART_EMPTY == KART_USE_HELPER \o <<"=">>
E_KART_NOEQ  == KART_USE_HELPER
E_FOO        == <<"F", "O", "O", "=", "a", "=", "b", "=", "c">>
E_PLAIN      == <<"A", "=", "x">>
E_EMPTYVAL   == <<"N", "=">>
E_NOEQ       == <<"B">>
E_LEADEQ     == <<"C", "=", "=", "y">>

EnvEntries == {E_KART_1, E_KART_EMPTY, E_KART_NOEQ, E_FOO, E_PLAIN,
               E_EMPTYVAL, E_NOEQ, E_LEADEQ}

\* Environments of the full protocol runs.
Environs == {<<E_PLAIN, E_KART_1>>, <<E_KART_EMPTY>>, <<E_PLAIN>>}

\* All environments of at most MaxEnv entries.
AllEnvirons == UNION {[1 .. n -> EnvEntries] : n \in 0 .. MaxEnv}

\* char key[4096], val[4096] are declared without an initialiser: what
\* they hold before the first strcpy is whatever the stack held.
StackGarbage == {<<>>, <<"?">>}

\* Content of a malloc'ed slot that was never written.
Uninit == <<"uninitialised">>

\* char **argv of the invocation.
Argv == <<"kart", "status">>

VARIABLES
    environ,        \* char **environ: sequence of entries (strings)
    helper_environ, \* the malloc'ed array: one slot per element of capacity
    found,          \* int found
    key,            \* char key[4096]
    val,            \* char val[4096]
    env_ptr,        \* position of env_ptr in environ (1-based)
    fp,             \* int fp, -2 before the open
    peer,           \* a second client started at the same time
    pc,             \* position of the client in kart_main
    payload,        \* the cJSON payload object, a function field -> value
    fds,            \* int fds[4]
    semid,          \* global int semid
    sems,           \* kernel: existing semaphore sets, id -> semval
    handler,        \* disposition of SIGALRM in the client
    sigPending,     \* a SIGALRM has been sent to the client, not yet handled
    status,         \* int status (posix_spawnp result), -1 when not yet set
    max_retry,      \* int max_retry
    rtc,            \* int rtc
    helper,         \* helper process: "absent" | "starting" | "listening"
    msg,            \* message accepted by sendmsg, <<>> when none
    helperGot,      \* what the helper has read: "none" | "partial" | "full"
    helperWrote,    \* exit code the helper published, -1 when none
    helperNotified, \* the helper has sent SIGALRM
    exitStatus,     \* exit status of the client process, -1 while it runs
    exitVia,        \* "none" | "return" | "exit" | "alarm"
    hist            \* history record: counts of calls the client has made

vars == <<environ, helper_environ, found, key, val, env_ptr, fp, peer, pc, payload, fds, semid, sems, handler, sigPending,
          status, max_retry, rtc, helper, msg, helperGot, helperWrote,
          helperNotified, exitStatus, exitVia, hist>>

envVars == <<environ, helper_environ, found, key, val, env_ptr, fp>>

clientVars == <<envVars, pc, payload, fds, semid, handler, status, max_retry, rtc,
                exitStatus, exitVia, hist>>

helperVars == <<helperGot, helperWrote, helperNotified>>

\* ------------------------------------------------------------------------
\* Pure helpers
\* ------------------------------------------------------------------------
\* exit(n) and "return n" from main: the parent sees n & 0377.
ExitStatusOf(n) == n % 256

\* Process termination by return from kart_main / main.
Return(n) ==
    /\ pc' = "exited"
    /\ exitStatus' = ExitStatusOf(n)
    /\ exitVia' = "return"

\* connect(socket_fd, &addr, ...): 0 when a helper listens on the socket
\* path, -1 otherwise.
ConnectResult == IF helper = "listening" THEN 0 ELSE -1

\* semctl(id, 0, GETVAL): the value, or -1 when the set does not exist.
GetVal(id) == IF id \in DOMAIN sems THEN sems[id] ELSE -1

\* semctl(id, 0, IPC_RMID): the kernel table without id.
RmId(id) == [i \in DOMAIN sems \ {id} |-> sems[i]]

EmptySems == [i \in {} |-> 0]

\* getenv(name): the entries are searched in order for "name=...";
\* the result is <<value>>, or <<>> for NULL.
Getenv(env, name) ==
    LET n == Len(name)
        hits == {i \in 1 .. Len(env) :
                    /\ Len(env[i]) > n
                    /\ SubSeq(env[i], 1, n) = name
                    /\ env[i][n + 1] = "="}
    IN IF hits = {} THEN <<>>
       ELSE LET i == CHOOSE j \in hits : \A h \in hits : j <= h
            IN <<SubSeq(env[i], n + 2, Len(env[i]))>>

\* kart.c:64, 77  strtok(temp, "=") and strtok(NULL, "="): the successive
\* tokens of s, the maximal runs of characters other than '='.
RECURSIVE Tokens(_)
Tokens(s) ==
    IF s = <<>> THEN <<>>
    ELSE IF Head(s) = "=" THEN Tokens(Tail(s))
    ELSE LET stops == {i \in 1 .. Len(s) : s[i] = "="}
             e == IF stops = {} THEN Len(s) + 1
                  ELSE CHOOSE i \in stops : \A j \in stops : i <= j
         IN <<SubSeq(s, 1, e - 1)>> \o Tokens(SubSeq(s, e + 1, Len(s)))

\* A test of the value instead of the pointer.
HandoffSelected_Mut(v) == v # <<>> /\ v[1] # <<>>

\* kart.c:35  if (getenv("KART_USE_HELPER")): the pointer is not NULL.
HandoffSelected(v) == v # <<>>

PeerIdle == [pc |-> "idle", firstRc |-> 1, status |-> -1, spawns |-> 0]

InitCommon ==
    /\ helper_environ = <<>>
    /\ found = 0
    /\ key \in StackGarbage
    /\ val \in StackGarbage
    /\ env_ptr = 0
    /\ fp = -2
    /\ pc = "start"
    /\ payload = [f \in {} |-> 0]
    /\ fds = <<>>
    /\ semid = 0
    /\ sems = EmptySems
    /\ handler = "default"
    /\ sigPending = FALSE
    /\ status = -1
    /\ max_retry = 0
    /\ rtc = 0
    /\ helper \in {"absent", "listening"}
    /\ msg = <<>>
    /\ helperGot = "none"
    /\ helperWrote = -1
    /\ helperNotified = FALSE
    /\ exitStatus = -1
    /\ exitVia = "none"
    /\ hist = [connects |-> 0, retryConnects |-> 0, sleeps |-> 0,
               spawns |-> 0, semgets |-> 0, allocated |-> -1,
               sends |-> 0, sendRet |-> 0, waits |-> 0, firstRc |-> 1,
               reachedAt |-> 0, itemSrc |-> <<>>, oobWrite |-> FALSE,
               alarmSemval |-> -2]

\* One client, the environment one of Environs.
Init ==
    /\ InitCommon
    /\ environ \in Environs
    /\ peer = PeerIdle

\* kart.c:35  if (getenv("KART_USE_HELPER")) ... else res = -9999;
CheckEnv ==
    /\ pc = "start"
    /\ ~sigPending
    /\ IF HandoffSelected(Getenv(environ, KART_USE_HELPER))
          THEN /\ pc' = "capture"
               /\ UNCHANGED <<exitStatus, exitVia>>
          ELSE Return(RES_NORMAL)
    /\ UNCHANGED <<envVars, peer, payload, fds, semid, sems, handler, sigPending,
                   status, max_retry, rtc, helper, msg, helperVars, hist>>

\* kart.c:41-52  listSZ, malloc((listSZ - 1) * sizeof(char *)), the payload
\* object with "pid" and an empty "environ" object, found = 0.
CaptureBegin ==
    /\ pc = "capture"
    /\ ~sigPending
    /\ helper_environ' = [i \in 1 .. (Len(environ) - 1) |-> Uninit]
    /\ payload' = [pid |-> Pid, environ |-> <<>>]
    /\ found' = 0
    /\ env_ptr' = 1
    /\ pc' = "envloop"
    /\ UNCHANGED <<environ, key, val, fp, peer, fds, semid, sems, handler,
                   sigPending, status, max_retry, rtc, helper, msg,
                   helperVars, exitStatus, exitVia, hist>>

\* The filter letting every entry through.
KeepEntry_Mut(k) == TRUE

\* kart.c:82  if (strcmp(key, "KART_USE_HELPER"))
KeepEntry(k) == k # KART_USE_HELPER

\* kart.c:54-87  one iteration of the loop over environ: the first token
\* is copied to key, the second to val; a buffer no token is copied to
\* keeps what it held.  An entry whose key is not the control variable is
\* stored in helper_environ[found++] and added to the "environ" object.
\* (Entries longer than the 4096-byte buffers are outside the bounds.)
EnvStep ==
    /\ pc = "envloop"
    /\ ~sigPending
    /\ env_ptr <= Len(environ)
    /\ LET entry == environ[env_ptr]
           toks == Tokens(entry)
           k == IF Len(toks) >= 1 THEN toks[1] ELSE key
           v == IF Len(toks) >= 2 THEN toks[2] ELSE val
       IN /\ key' = k
          /\ val' = v
          /\ IF KeepEntry(k)
                THEN /\ helper_environ' =
                            IF found < Len(helper_environ)
                               THEN [helper_environ EXCEPT ![found + 1] = entry]
                               ELSE helper_environ
                     /\ found' = found + 1
                     /\ payload' = [payload EXCEPT !.environ =
                                        Append(@, [key |-> k, val |-> v])]
                     /\ hist' = [hist EXCEPT
                                    !.itemSrc = Append(@, env_ptr),
                                    !.oobWrite = @ \/ found >= Len(helper_environ)]
                ELSE UNCHANGED <<helper_environ, found, payload, hist>>
    /\ env_ptr' = env_ptr + 1
    /\ UNCHANGED <<environ, fp, peer, pc, fds, semid, sems, handler, sigPending,
                   status, max_retry, rtc, helper, msg, helperVars,
                   exitStatus, exitVia>>

\* The bundle with the working directory first.
FdBundle_Mut(d) == <<d, 0, 1, 2>>

\* kart.c:97  int fds[4] = {fileno(stdin), fileno(stdout), fileno(stderr), fp};
FdBundle(d) == <<0, 1, 2, d>>

\* kart.c:88-105  after the loop: the "argv" array, fp = open(cwd, O_RDONLY),
\* the descriptor bundle and the socket.
Capture ==
    /\ pc = "envloop"
    /\ ~sigPending
    /\ env_ptr > Len(environ)
    /\ payload' = [f \in DOMAIN payload \cup {"argv"} |->
                        IF f = "argv" THEN Argv ELSE payload[f]]
    /\ \E d \in CwdFds :
        /\ fp' = d
        /\ fds' = FdBundle(d)
    /\ pc' = "connect"
    /\ UNCHANGED <<environ, helper_environ, found, key, val, env_ptr, peer,
                   semid, sems, handler, sigPending, status,
                   max_retry, rtc, helper, msg, helperVars, exitStatus,
                   exitVia, hist>>

\* The test of the first connect never seeing a failure.
ConnectFailed_Never(rc) == rc < -1

\* The test of the first connect with the success value taken for a failure.
ConnectFailed_Mut(rc) == rc <= 0

\* kart.c:107  if (connect(...) < 0)
ConnectFailed(rc) == rc < 0

\* kart.c:107  the first connect; on failure the spawn branch is entered.
Connect ==
    /\ pc = "connect"
    /\ ~sigPending
    /\ hist' = [hist EXCEPT !.connects = @ + 1, !.firstRc = ConnectResult]
    /\ pc' = IF ConnectFailed(ConnectResult) THEN "spawn" ELSE "semget"
    /\ UNCHANGED <<envVars, peer, payload, fds, semid, sems, handler, sigPending,
                   status, max_retry, rtc, helper, msg, helperVars,
                   exitStatus, exitVia>>

\* kart.c:122  what posix_spawnp finds where it looks for the terminator of
\* helper_environ, the slot after the found entries written.
TerminatorRead ==
    IF found + 1 > Len(helper_environ) THEN "out of bounds"
    ELSE IF helper_environ[found + 1] = Uninit THEN "uninitialised"
    ELSE "written"

\* kart.c:123  if (status < 0)
SpawnFailed(st) == st < 0

\* kart.c:110-129  posix_spawnp of "<argv[0]> helper --socket <path>", the
\* status test, and the initialisation of max_retry.
Spawn ==
    /\ pc = "spawn"
    /\ ~sigPending
    /\ \E st \in SpawnStatuses :
        /\ status' = st
        /\ helper' = IF st = 0 /\ helper = "absent" THEN "starting" ELSE helper
        /\ hist' = [hist EXCEPT !.spawns = @ + 1]
        /\ IF SpawnFailed(st)
              THEN /\ pc' = "exited"
                   /\ exitStatus' = ExitStatusOf(1)
                   /\ exitVia' = "exit"
                   /\ UNCHANGED max_retry
              ELSE /\ pc' = "retry"
                   /\ max_retry' = MAX_RETRY
                   /\ UNCHANGED <<exitStatus, exitVia>>
    /\ UNCHANGED <<envVars, peer, payload, fds, semid, sems, handler, sigPending,
                   rtc, msg, helperVars>>

\* The loop condition without the test of rtc.
LoopContinues_Mut(rc, mr) == mr - 1 >= 0

\* kart.c:130  (rtc = connect(...)) != 0 && --max_retry >= 0
\* mr is max_retry before the evaluation; the decrement happens only when
\* the left operand is true.
LoopContinues(rc, mr) == rc # 0 /\ mr - 1 >= 0

\* kart.c:130, 134-138  one evaluation of the loop condition and, when the
\* loop is left, the test of rtc.
RetryConnect ==
    /\ pc = "retry"
    /\ ~sigPending
    /\ LET rc == ConnectResult IN
        /\ rtc' = rc
        /\ max_retry' = IF rc # 0 THEN max_retry - 1 ELSE max_retry
        /\ hist' = [hist EXCEPT !.connects = @ + 1,
                                !.retryConnects = @ + 1,
                                !.reachedAt = IF rc = 0 /\ @ = 0
                                                 THEN hist.retryConnects + 1
                                                 ELSE @]
        /\ IF LoopContinues(rc, max_retry)
              THEN /\ pc' = "usleep"
                   /\ UNCHANGED <<exitStatus, exitVia>>
              ELSE IF rc < 0
                      THEN Return(2)
                      ELSE /\ pc' = "semget"
                           /\ UNCHANGED <<exitStatus, exitVia>>
    /\ UNCHANGED <<envVars, peer, payload, fds, semid, sems, handler, sigPending,
                   status, helper, msg, helperVars>>

\* The loop going back to the spawn instead of to the connect.
AfterUsleep_Mut == "spawn"

\* kart.c:130-133  after the body the loop goes back to its condition.
AfterUsleep == "retry"

\* kart.c:132  usleep(250000);
Usleep ==
    /\ pc = "usleep"
    /\ ~sigPending
    /\ hist' = [hist EXCEPT !.sleeps = @ + 1]
    /\ pc' = AfterUsleep
    /\ UNCHANGED <<envVars, peer, payload, fds, semid, sems, handler, sigPending,
                   status, max_retry, rtc, helper, msg, helperVars,
                   exitStatus, exitVia>>

\* kart.c:142  if ((semid = semget(...)) < 0)
SemgetFailed(id) == id < 0

\* The semid field written with the initial value of the global.
AddSemid_Mut(p, id) == [f \in DOMAIN p \cup {"semid"} |->
                            IF f = "semid" THEN 0 ELSE p[f]]

\* kart.c:153  cJSON_AddNumberToObject(payload, "semid", semid);
AddSemid(p, id) == [f \in DOMAIN p \cup {"semid"} |->
                        IF f = "semid" THEN id ELSE p[f]]

\* kart.c:142-153  semget(IPC_PRIVATE, 1, IPC_CREAT | IPC_EXCL | 0600): a
\* new set with an identifier not in use, or -1; then the semid is added
\* to the payload.
Semget ==
    /\ pc = "semget"
    /\ ~sigPending
    /\ \/ \E id \in SemIdPool \ DOMAIN sems : \E v \in RestingVals :
            /\ semid' = id
            /\ sems' = [i \in DOMAIN sems \cup {id} |->
                            IF i = id THEN v ELSE sems[i]]
            /\ hist' = [hist EXCEPT !.semgets = @ + 1, !.allocated = id]
            /\ IF SemgetFailed(id)
                  THEN /\ Return(5)
                       /\ UNCHANGED payload
                  ELSE /\ payload' = AddSemid(payload, id)
                       /\ pc' = "signal"
                       /\ UNCHANGED <<exitStatus, exitVia>>
       \/ /\ semid' = -1
          /\ hist' = [hist EXCEPT !.semgets = @ + 1]
          /\ IF SemgetFailed(-1)
                THEN /\ Return(5)
                     /\ UNCHANGED payload
                ELSE /\ payload' = AddSemid(payload, -1)
                     /\ pc' = "signal"
                     /\ UNCHANGED <<exitStatus, exitVia>>
          /\ UNCHANGED sems
    /\ UNCHANGED <<envVars, peer, fds, handler, sigPending, status, max_retry,
                   rtc, helper, msg, helperVars>>

\* The call leaving the default disposition in place.
InstalledHandler_Mut == "default"

\* kart.c:182  the disposition signal(SIGALRM, exit_on_alarm) sets.
InstalledHandler == "exit_on_alarm"

\* kart.c:182  signal(SIGALRM, exit_on_alarm);
InstallHandler ==
    /\ pc = "signal"
    /\ ~sigPending
    /\ handler' = InstalledHandler
    /\ pc' = "send"
    /\ UNCHANGED <<envVars, peer, payload, fds, semid, sems, sigPending, status,
                   max_retry, rtc, helper, msg, helperVars, exitStatus,
                   exitVia, hist>>

\* The send test missing the -1 result.
SendFailed_Mut(ret) == ret < -1

\* kart.c:184  if (sendmsg(socket_fd, &msg, 0) < 0)
SendFailed(ret) == ret < 0

\* The open files of the client: the three standard streams and, when the
\* open at kart.c:95 succeeded, the working directory opened O_RDONLY.
FdTable ==
    [fd \in {0, 1, 2} \cup (IF fp >= 0 THEN {fp} ELSE {}) |->
        IF fd = fp THEN "cwd:O_RDONLY"
        ELSE IF fd = 0 THEN "stdin"
        ELSE IF fd = 1 THEN "stdout"
        ELSE "stderr"]

\* Return values of sendmsg: -1, or the number of payload bytes accepted;
\* a descriptor of the SCM_RIGHTS data that is not open makes it fail
\* (EBADF).
SendResults(bundle, table) ==
    IF \E i \in 1 .. Len(bundle) : bundle[i] \notin DOMAIN table
       THEN {-1}
       ELSE {-1} \cup (1 .. PayloadLen)

\* kart.c:154-180, 184-188  one sendmsg of the printed payload with the
\* four descriptors as SCM_RIGHTS data.  It returns -1, or the number of
\* payload bytes accepted (1..PayloadLen).  The receiver gets the open
\* files the descriptors name, in the order of the array.
Sendmsg ==
    /\ pc = "send"
    /\ ~sigPending
    /\ \E ret \in SendResults(fds, FdTable) :
        /\ hist' = [hist EXCEPT !.sends = @ + 1, !.sendRet = ret]
        /\ msg' = IF ret >= 0
                     THEN [bytes |-> ret, payload |-> payload, fds |-> fds,
                           files |-> [i \in 1 .. Len(fds) |->
                                        FdTable[fds[i]]]]
                     ELSE msg
        /\ IF SendFailed(ret)
              THEN Return(3)
              ELSE /\ pc' = "sleep"
                   /\ UNCHANGED <<exitStatus, exitVia>>
    /\ UNCHANGED <<envVars, peer, payload, fds, semid, sems, handler, sigPending,
                   status, max_retry, rtc, helper, helperVars>>

\* kart.c:208-210  sleep(3600) runs to its end; return 4.
SleepTimeout ==
    /\ pc = "sleep"
    /\ ~sigPending
    /\ hist' = [hist EXCEPT !.waits = @ + 1]
    /\ Return(4)
    /\ UNCHANGED <<envVars, peer, payload, fds, semid, sems, handler, sigPending,
                   status, max_retry, rtc, helper, msg, helperVars>>

\* The decoding without the offset.
DecodeExit_Mut(semval) == semval

\* kart.c:27  int exit_code = semval - 1000;
DecodeExit(semval) == semval - OFFSET

\* kart.c:24-30  exit_on_alarm: delivery of a pending SIGALRM to the
\* running client while the handler is installed.
ExitOnAlarm ==
    /\ sigPending
    /\ pc # "exited"
    /\ handler = "exit_on_alarm"
    /\ LET semval == GetVal(semid)
           exit_code == DecodeExit(semval) IN
        /\ sems' = RmId(semid)
        /\ exitStatus' = ExitStatusOf(exit_code)
        /\ hist' = [hist EXCEPT !.alarmSemval = semval]
    /\ exitVia' = "alarm"
    /\ pc' = "exited"
    /\ sigPending' = FALSE
    /\ UNCHANGED <<envVars, peer, payload, fds, semid, handler, status,
                   max_retry, rtc, helper, msg, helperVars>>

\* ------------------------------------------------------------------------
\* The helper (server side of the protocol)
\* ------------------------------------------------------------------------
\* A spawned helper binds and listens on the socket path.
HelperListen ==
    /\ helper = "starting"
    /\ helper' = "listening"
    /\ UNCHANGED <<envVars, peer, clientVars, sems, sigPending, msg, helperVars>>

\* The helper reads the message; it can parse the payload only when all of
\* its bytes arrived.
HelperRecv ==
    /\ msg # <<>>
    /\ helperGot = "none"
    /\ helperGot' = IF msg.bytes = PayloadLen THEN "full" ELSE "partial"
    /\ UNCHANGED <<envVars, peer, clientVars, sems, sigPending, helper, msg,
                   helperWrote, helperNotified>>

\* The helper publishes exit code E as E + OFFSET in the counter named by
\* the payload.
HelperSetVal ==
    /\ helperGot = "full"
    /\ helperWrote = -1
    /\ ~helperNotified
    /\ msg.payload["semid"] \in DOMAIN sems
    /\ \E E \in ExitCodes :
        /\ sems' = [sems EXCEPT ![msg.payload["semid"]] = E + OFFSET]
        /\ helperWrote' = E
    /\ UNCHANGED <<envVars, peer, clientVars, sigPending, helper, msg, helperGot,
                   helperNotified>>

\* The helper sends SIGALRM to the pid named by the payload.
HelperNotify ==
    /\ helperGot = "full"
    /\ ~helperNotified
    /\ pc # "exited"
    /\ sigPending' = TRUE
    /\ helperNotified' = TRUE
    /\ UNCHANGED <<envVars, peer, clientVars, sems, helper, msg, helperGot,
                   helperWrote>>

Next ==
    \/ CheckEnv
    \/ CaptureBegin
    \/ EnvStep
    \/ Capture
    \/ Connect
    \/ Spawn
    \/ RetryConnect
    \/ Usleep
    \/ Semget
    \/ InstallHandler
    \/ Sendmsg
    \/ SleepTimeout
    \/ ExitOnAlarm
    \/ HelperListen
    \/ HelperRecv
    \/ HelperSetVal
    \/ HelperNotify

Spec == Init /\ [][Next]_vars

\* ------------------------------------------------------------------------
\* The capture of the environment over all environments of at most MaxEnv
\* entries, up to the spawn of the helper.
\* ------------------------------------------------------------------------
InitEnv ==
    /\ InitCommon
    /\ environ \in AllEnvirons
    /\ helper = "absent"
    /\ peer = PeerIdle

NextEnv ==
    \/ CheckEnv
    \/ CaptureBegin
    \/ EnvStep
    \/ Capture
    \/ Connect
    \/ Spawn

SpecEnv == InitEnv /\ [][NextEnv]_vars

\* ------------------------------------------------------------------------
\* Two clients started at the same time.  The second client runs the same
\* code; its steps are followed up to its spawn.
\* ------------------------------------------------------------------------
PeerStart == [pc |-> "connect", firstRc |-> 1, status |-> -1, spawns |-> 0]

\* kart.c:107  the first connect of the second client.
PeerConnect ==
    /\ peer.pc = "connect"
    /\ peer' = [peer EXCEPT !.firstRc = ConnectResult,
                            !.pc = IF ConnectFailed(ConnectResult)
                                      THEN "spawn" ELSE "semget"]
    /\ UNCHANGED <<clientVars, sems, sigPending, helper, msg, helperVars>>

\* kart.c:110-129  posix_spawnp in the second client.
PeerSpawn ==
    /\ peer.pc = "spawn"
    /\ \E st \in SpawnStatuses :
        /\ peer' = [peer EXCEPT !.status = st,
                                !.spawns = @ + 1,
                                !.pc = IF SpawnFailed(st)
                                          THEN "exited" ELSE "retry"]
        /\ helper' = IF st = 0 /\ helper = "absent" THEN "starting" ELSE helper
    /\ UNCHANGED <<clientVars, sems, sigPending, msg, helperVars>>

InitRace ==
    /\ InitCommon
    /\ environ = <<E_PLAIN, E_KART_1>>
    /\ peer = PeerStart

NextRace ==
    \/ Next
    \/ PeerConnect
    \/ PeerSpawn

SpecRace == InitRace /\ [][NextRace]_vars

\* ------------------------------------------------------------------------
\* Properties
\* ------------------------------------------------------------------------

\* C1: when the helper has set the counter to E + 1000 (E in 0, 1, 127,
\* 255) and its SIGALRM is handled, the client exits with status E.
C1_ExitCodeRoundTrip ==
    \A E \in {0, 1, 127, 255} :
        (exitVia = "alarm" /\ helperWrote = E) => exitStatus = E

C1_Witness ==
    /\ exitVia = "alarm"
    /\ helperWrote = 255
    /\ helperNotified
    /\ exitStatus = 255

\* C2: when the helper never signals and sleep(3600) elapses, the client
\* ends with exit code 4 and the counter it allocated no longer exists.
C2_TimeoutDestroysCounter ==
    (pc = "exited" /\ hist.waits = 1 /\ ~helperNotified) =>
        /\ exitStatus = 4
        /\ hist.allocated \notin DOMAIN sems

\* C3: when the first connect failed and posix_spawnp returned a positive
\* error number, the client makes no retry connect and no sleep, allocates
\* no counter, sends nothing and does not end with code 2.
C3_SpawnFailureFailsFast ==
    status > 0 =>
        /\ hist.retryConnects = 0
        /\ hist.sleeps = 0
        /\ hist.semgets = 0
        /\ hist.sends = 0
        /\ exitStatus # 2

\* C4: the retry loop makes at most 10 connect attempts.
C4_AtMostTenRetryConnects ==
    hist.retryConnects <= 10

\* C5: when the connect of retry attempt k (1 <= k <= 10) succeeds, it is
\* the last connect, k - 1 sleeps were made, code 2 is not produced and
\* the client goes on to semget.
C5_SucceedsOnAttemptK ==
    \A k \in 1 .. 10 :
        hist.reachedAt = k =>
            /\ hist.retryConnects = k
            /\ hist.connects = k + 1
            /\ hist.sleeps = k - 1
            /\ exitStatus # 2
            /\ pc \notin {"retry", "usleep", "spawn", "connect"}
            /\ (pc = "semget" \/ hist.semgets = 1)

C5_Witness ==
    /\ hist.reachedAt = 5
    /\ hist.semgets = 1
    /\ hist.allocated # -1

\* C6: when the first connect succeeds it is the only connect of the
\* invocation: no spawn, no retry connect, no retry sleep.
C6_OneConnectWhenReachable ==
    hist.firstRc = 0 =>
        /\ hist.connects = 1
        /\ hist.spawns = 0
        /\ hist.retryConnects = 0
        /\ hist.sleeps = 0

C6_Witness ==
    /\ hist.firstRc = 0
    /\ hist.connects = 1
    /\ pc = "exited"

\* C7: an invocation calls posix_spawnp at most once, however many retries
\* fail.
C7_AtMostOneSpawn ==
    hist.spawns <= 1

C7_Witness ==
    /\ hist.spawns = 1
    /\ hist.retryConnects > 10
    /\ exitStatus = 2

\* C8: a message is only sent after the counter was allocated, the semid
\* field of the sent payload is the handle of that counter, and the wait
\* (sleep) is only entered after sendmsg returned without error.
C8_AllocateSendWaitOrder ==
    /\ hist.sends > 0 => (hist.semgets = 1 /\ hist.allocated # -1)
    /\ msg # <<>> =>
          /\ "semid" \in DOMAIN msg.payload
          /\ msg.payload["semid"] = hist.allocated
          /\ msg.payload["semid"] = semid
    /\ (pc = "sleep" \/ hist.waits > 0) =>
          (hist.sends = 1 /\ hist.sendRet >= 0 /\ msg # <<>>)

C8_Witness ==
    /\ hist.waits = 1
    /\ msg # <<>>
    /\ msg.payload["semid"] = 5

\* C9: exhausted connect retries end with 2, no counter and no message; a
\* failed semget ends with 5 and no message; a failed sendmsg ends with 3
\* and no wait.
C9_FailureCodes ==
    /\ max_retry < 0 =>
          /\ pc = "exited" /\ exitVia = "return" /\ exitStatus = 2
          /\ hist.semgets = 0 /\ hist.allocated = -1
          /\ hist.sends = 0 /\ msg = <<>>
    /\ semid < 0 =>
          /\ pc = "exited" /\ exitVia = "return" /\ exitStatus = 5
          /\ hist.sends = 0 /\ msg = <<>>
    /\ hist.sendRet < 0 =>
          /\ pc = "exited" /\ exitVia = "return" /\ exitStatus = 3
          /\ hist.waits = 0

C9_Witness ==
    /\ hist.sendRet < 0
    /\ exitStatus = 3

\* C10: when exit_on_alarm runs while the counter still holds its resting
\* value, the client exits with the wait-timeout code 4.
C10_RestingCounterGivesTimeout ==
    (exitVia = "alarm" /\ helperWrote = -1) => exitStatus = 4

\* C11: a sendmsg that accepted fewer payload bytes than requested ends
\* the client with code 3, after one send and without a wait.
C11_PartialSendIsFailure ==
    (hist.sendRet > 0 /\ hist.sendRet < PayloadLen) =>
        /\ pc = "exited"
        /\ exitStatus = 3
        /\ hist.sends = 1
        /\ hist.waits = 0

\* NAME=VALUE split on the first '=' (the reading of spec section 4.1).
HasEq(e) == \E i \in 1 .. Len(e) : e[i] = "="

FirstEq(e) == CHOOSE i \in 1 .. Len(e) :
                  e[i] = "=" /\ \A j \in 1 .. (i - 1) : e[j] # "="

NameOf(e) == IF HasEq(e) THEN SubSeq(e, 1, FirstEq(e) - 1) ELSE e

ValueOf(e) == IF HasEq(e) THEN SubSeq(e, FirstEq(e) + 1, Len(e)) ELSE <<>>

\* The items of the "environ" object of the payload built so far.
EnvItems == IF "environ" \in DOMAIN payload THEN payload["environ"] ELSE <<>>

\* The entry of environ item n of the payload was made from.
SrcOf(n) == environ[hist.itemSrc[n]]

\* C12: an entry NAME=VALUE whose VALUE contains '=' is stored under NAME
\* with exactly VALUE as its value.
C12_ValueWithEqualsKept ==
    \A n \in 1 .. Len(EnvItems) :
        (HasEq(SrcOf(n)) /\ HasEq(ValueOf(SrcOf(n)))) =>
            /\ EnvItems[n].key = NameOf(SrcOf(n))
            /\ EnvItems[n].val = ValueOf(SrcOf(n))

\* C13: in handoff mode no item of the "environ" object of the payload has
\* the key KART_USE_HELPER.
C13_ControlVariableFiltered ==
    \A n \in 1 .. Len(EnvItems) : EnvItems[n].key # KART_USE_HELPER

C13_Witness ==
    /\ pc = "spawn"
    /\ Getenv(environ, KART_USE_HELPER) # <<>>
    /\ Len(environ) = 2
    /\ Len(EnvItems) = 1

\* C14: a message sent carries, together with the payload, exactly four
\* descriptors: standard input, standard output, standard error and the
\* working directory opened read-only, in that order; it is the only
\* message.
C14_FourDescriptorsInOrder ==
    msg # <<>> =>
        /\ Len(msg.fds) = 4
        /\ msg.files = <<"stdin", "stdout", "stderr", "cwd:O_RDONLY">>
        /\ "pid" \in DOMAIN msg.payload
        /\ hist.sends = 1

C14_Witness ==
    /\ msg # <<>>
    /\ helperGot = "full"
    /\ msg.files[4] = "cwd:O_RDONLY"

\* KART_USE_HELPER is the name of some NAME=VALUE entry.
Present(env) ==
    \E i \in 1 .. Len(env) : HasEq(env[i]) /\ NameOf(env[i]) = KART_USE_HELPER

\* C15: the handoff path is taken exactly when KART_USE_HELPER is present,
\* whatever its value; otherwise the client returns at once on the normal
\* path without connect, spawn, semget or send.
C15_HandoffIffPresent ==
    pc # "start" =>
        IF Present(environ)
           THEN pc = "capture" \/ "pid" \in DOMAIN payload
           ELSE /\ pc = "exited"
                /\ exitVia = "return"
                /\ exitStatus = ExitStatusOf(RES_NORMAL)
                /\ DOMAIN payload = {}
                /\ hist.connects = 0 /\ hist.spawns = 0
                /\ hist.semgets = 0 /\ hist.sends = 0

C15_Witness ==
    /\ environ = <<E_KART_EMPTY>>
    /\ pc = "spawn"
    /\ hist.connects = 1

\* C16: a client that allocated the counter and exits after a failed send
\* or through the alarm handler has destroyed the counter.
C16_CounterDestroyedOnExit ==
    (pc = "exited" /\ hist.allocated # -1
        /\ (hist.sendRet < 0 \/ exitVia = "alarm")) =>
            hist.allocated \notin DOMAIN sems

\* C17: an entry with an empty value, or without '=', is recorded under
\* its own name with the empty value.
C17_EmptyValueOwnEntry ==
    \A n \in 1 .. Len(EnvItems) :
        (~HasEq(SrcOf(n)) \/ ValueOf(SrcOf(n)) = <<>>) =>
            /\ EnvItems[n].key = NameOf(SrcOf(n))
            /\ EnvItems[n].val = <<>>

\* C18: the handler is installed after the counter is allocated and before
\* the send; a SIGALRM of the helper always finds exit_on_alarm installed
\* and an existing counter, is not lost, and ends the client with the
\* counter value minus 1000.
C18_AlarmAlwaysHandled ==
    /\ handler = "exit_on_alarm" =>
          (hist.semgets = 1 /\ hist.allocated # -1)
    /\ hist.sends > 0 => handler = "exit_on_alarm"
    /\ sigPending =>
          /\ handler = "exit_on_alarm"
          /\ pc = "sleep"
          /\ semid = hist.allocated
          /\ semid \in DOMAIN sems
    /\ helperNotified =>
          \/ sigPending
          \/ /\ exitVia = "alarm"
             /\ hist.alarmSemval >= 0
             /\ exitStatus = (hist.alarmSemval - 1000) % 256

C18_Witness ==
    /\ exitVia = "alarm"
    /\ helperNotified
    /\ hist.alarmSemval = 1127
    /\ exitStatus = 127

\* C19: each of two clients whose first connect failed calls posix_spawnp,
\* whatever the other client has done: nothing keeps the second spawn
\* from happening.
C19_BothClientsSpawn ==
    /\ (hist.firstRc < 0 /\ pc # "spawn") => hist.spawns = 1
    /\ (peer.firstRc < 0 /\ peer.pc # "spawn") => peer.spawns = 1

C19_Witness ==
    /\ hist.firstRc < 0 /\ peer.firstRc < 0
    /\ hist.spawns = 1 /\ status = 0
    /\ peer.spawns = 1 /\ peer.status = 0

\* The entries whose name is not the control variable, in order.
Filtered(env) == SelectSeq(env, LAMBDA e : NameOf(e) # KART_USE_HELPER)

\* C20: at the spawn the list passed is the entries whose name is not the
\* control variable, in order, followed by a terminator, all written and
\* read inside the listSZ - 1 slots allocated.
C20_HelperEnvironTerminated ==
    hist.spawns > 0 =>
        /\ found <= Len(helper_environ)
        /\ SubSeq(helper_environ, 1, found) = Filtered(environ)
        /\ ~hist.oobWrite
        /\ TerminatorRead = "written"

====
